---- MODULE Spec2Model ----
(***************************************************************************)
(* Tag-value resolution core of the GamplayTagValue plugin:                *)
(* UGameplayTagValueSubsystem with its prioritized repositories            *)
(* (FMemoryTagValueRepository, UTagValueRepositoryComponent), hierarchical *)
(* tag fallback and the optional per-call context object.                  *)
(***************************************************************************)
EXTENDS Integers, Sequences, FiniteSets, TLC

VARIABLES Repositories, TagValues, OnTagValueChanged, ret, steps

vars == <<Repositories, TagValues, OnTagValueChanged, ret, steps>>

\* Number of state-changing calls explored in one behaviour.
MaxSteps == 3

-----------------------------------------------------------------------------
(* Gameplay tags: a tag is the sequence of its dotted segments, a.b.c is   *)
(* <<"a","b","c">>; the empty tag is the invalid tag.                      *)

EmptyTag == << >>

ValidTags == { <<"a">>, <<"a", "b">>, <<"a", "b", "c">> }

AllTags == ValidTags \cup {EmptyTag}

TagIsValid(Tag) == Len(Tag) > 0

RequestDirectParent(Tag) ==
    IF Len(Tag) <= 1 THEN EmptyTag ELSE SubSeq(Tag, 1, Len(Tag) - 1)

-----------------------------------------------------------------------------
(* Value holders (ITagValueHolder / TTagValueHolder<T>): the reflection    *)
(* type name and the held value.  nullptr is the null shared pointer.      *)

nullptr == [type |-> "nullptr", val |-> 0]

NoEntry == [type |-> "none", val |-> 0]

TTagValueHolder(T, v) == [type |-> T, val |-> v]

\* the typed accessors exercised: Get/SetIntValue and Get/SetFloatValue
TypedTypes == {"int32", "double"}

\* the values handed to the typed setters
TypedValues == {TTagValueHolder("int32", 2), TTagValueHolder("double", 1)}

\* the default handed to the typed getters, a value no setter stores
DefaultVals == {3}

\* static_cast<float>(double): doubles that are not representable are rounded
ToFloat(v) == v - (v % 2)

-----------------------------------------------------------------------------
(* Repository objects.                                                     *)

NAME_None == "None"

DefaultRepositoryName == "Default"

DefaultRepositoryPriority == 100

RepoIds == {"D", "M1", "C1", "C2"}

NullRepo == "null"

GetRepositoryName(r) ==
    CASE r = "D"  -> DefaultRepositoryName
      [] r = "M1" -> "High"
      [] r = "C1" -> "High"
      [] r = "C2" -> "Comp"

GetPriority(r) ==
    CASE r = "D"  -> DefaultRepositoryPriority
      [] r = "M1" -> 200
      [] r = "C1" -> 50
      [] r = "C2" -> 100

IsComponent(r) == r \in {"C1", "C2"}

\* the repository names handed to the calls; High and Comp name no registered
\* repository until one of that name is registered
RepositoryNames == {NAME_None, "High", "Comp"}

\* UTagValueRepositoryComponent::ConvertHolderToTagValue
ConvertHolderToTagValue(Holder) ==
    IF Holder = nullptr THEN nullptr
    ELSE CASE Holder.type = "bool"   -> [type |-> "Bool",  val |-> Holder.val]
           [] Holder.type = "int32"  -> [type |-> "Int",   val |-> Holder.val]
           [] Holder.type = "float"  -> [type |-> "Float", val |-> Holder.val]
           [] Holder.type = "double" -> [type |-> "Float", val |-> ToFloat(Holder.val)]
           [] Holder.type = "FString" -> [type |-> "String", val |-> Holder.val]
           [] Holder.type = "FTransform" -> [type |-> "Transform", val |-> Holder.val]
           [] Holder.type \in {"TSoftClassPtr", "FSoftClassPath"}
                 -> [type |-> "Class", val |-> Holder.val]
           [] Holder.type \in {"TSoftObjectPtr", "FSoftObjectPath"}
                 -> [type |-> "Object", val |-> Holder.val]
           [] OTHER -> nullptr

\* UTagValueRepositoryComponent::ConvertTagValueToHolder
ConvertTagValueToHolder(Value) ==
    IF Value = nullptr THEN nullptr
    ELSE CASE Value.type = "Bool"  -> TTagValueHolder("bool", Value.val)
           [] Value.type = "Int"   -> TTagValueHolder("int32", Value.val)
           [] Value.type = "Float" -> TTagValueHolder("float", Value.val)
           [] Value.type = "String" -> TTagValueHolder("FString", Value.val)
           [] Value.type = "Transform" -> TTagValueHolder("FTransform", Value.val)
           [] Value.type = "Class" -> TTagValueHolder("TSoftClassPtr", Value.val)
           [] Value.type = "Object" -> TTagValueHolder("TSoftObjectPtr", Value.val)
           [] OTHER -> nullptr

\* ITagValueRepository::HasValue of repository r over the store tv
HasValue(tv, r, Tag) == tv[r][Tag] # NoEntry

\* ITagValueRepository::GetValue
GetValue(tv, r, Tag) ==
    IF IsComponent(r)
    THEN IF HasValue(tv, r, Tag) THEN ConvertTagValueToHolder(tv[r][Tag]) ELSE nullptr
    ELSE IF tv[r][Tag] # NoEntry THEN tv[r][Tag] ELSE nullptr

\* ITagValueRepository::RemoveValue
RemoveValue(tv, r, Tag) == [tv EXCEPT ![r][Tag] = NoEntry]

\* ITagValueRepository::SetValue
SetValue(tv, r, Tag, Value) ==
    IF IsComponent(r)
    THEN IF Value = nullptr
         THEN RemoveValue(tv, r, Tag)
         ELSE LET TagValue == ConvertHolderToTagValue(Value)
              IN  IF TagValue # nullptr THEN [tv EXCEPT ![r][Tag] = TagValue] ELSE tv
    ELSE IF TagIsValid(Tag) /\ Value # nullptr
         THEN [tv EXCEPT ![r][Tag] = Value]
         ELSE tv

\* ITagValueRepository::ClearAllValues
RepoClearAllValues(tv, r) == [tv EXCEPT ![r] = [t \in AllTags |-> NoEntry]]

-----------------------------------------------------------------------------
(* The registry.                                                           *)

Range(s) == { s[i] : i \in 1..Len(s) }

RECURSIVE RemoveAll(_, _)
\* TArray::RemoveAll of the repositories named RepositoryName, order kept
RemoveAll(reps, RepositoryName) ==
    IF reps = << >> THEN << >>
    ELSE IF GetRepositoryName(Head(reps)) = RepositoryName
         THEN RemoveAll(Tail(reps), RepositoryName)
         ELSE <<Head(reps)>> \o RemoveAll(Tail(reps), RepositoryName)

\* the sort predicate of RegisterRepository: A->GetPriority() > B->GetPriority()
SortPredicate(A, B) == GetPriority(A) > GetPriority(B)

IsSortedBy(reps) ==
    \A i, j \in 1..Len(reps) : i < j => ~SortPredicate(reps[j], reps[i])

\* TArray::Sort is not a stable sort: every ordering of reps that the
\* predicate accepts is a possible outcome
Sort(reps) ==
    { p \in [1..Len(reps) -> Range(reps)] :
         /\ \A r \in Range(reps) : \E i \in 1..Len(reps) : p[i] = r
         /\ IsSortedBy(p) }

RECURSIVE FindRepository(_, _)
FindRepository(reps, RepositoryName) ==
    IF reps = << >> THEN NullRepo
    ELSE IF GetRepositoryName(Head(reps)) = RepositoryName
         THEN Head(reps)
         ELSE FindRepository(Tail(reps), RepositoryName)

GetRepository(RepositoryName) == FindRepository(Repositories, RepositoryName)

GetBestRepository(RepositoryName) ==
    IF RepositoryName # NAME_None /\ GetRepository(RepositoryName) # NullRepo
    THEN GetRepository(RepositoryName)
    ELSE GetRepository(DefaultRepositoryName)

-----------------------------------------------------------------------------
(* Context objects (the optional UObject* Context of the getters).  "null" *)
(* is no context, "Plain" an object that does not implement                *)
(* UTagValueInterface, "Ctx" an object that implements it and holds an     *)
(* int for a and a bool for a.b.c.                                         *)

Contexts == {"null", "Plain", "Ctx"}

ImplementsTagValueInterface(Object) == Object = "Ctx"

ContextValues(Tag) ==
    CASE Tag = <<"a">>           -> [type |-> "int32", val |-> 1]
      [] Tag = <<"a", "b", "c">> -> [type |-> "bool",  val |-> 1]
      [] OTHER -> NoEntry

\* ITagValueInterface::HasTagValue
ContextHasTagValue(Tag) == ContextValues(Tag) # NoEntry

\* ITagValueInterface::GetBoolValue / GetIntValue / GetFloatValue
ContextGetValue(Tag, T, DefaultValue) ==
    IF ContextValues(Tag).type = T THEN ContextValues(Tag).val ELSE DefaultValue

-----------------------------------------------------------------------------
(* Resolution.                                                             *)

NoHit == [repo |-> NullRepo, tag |-> EmptyTag]

RECURSIVE FirstHolding(_, _, _)
\* the loop "for Repository in Repositories: if Repository->HasValue(Tag)"
FirstHolding(tv, reps, Tag) ==
    IF reps = << >> THEN NullRepo
    ELSE IF HasValue(tv, Head(reps), Tag) THEN Head(reps)
         ELSE FirstHolding(tv, Tail(reps), Tag)

RECURSIVE ParentHit(_, _, _)
\* the loop "while (ParentTag.IsValid())" of GetRawValue and HasTagValue
ParentHit(tv, reps, ParentTag) ==
    IF ~TagIsValid(ParentTag) THEN NoHit
    ELSE IF FirstHolding(tv, reps, ParentTag) # NullRepo
         THEN [repo |-> FirstHolding(tv, reps, ParentTag), tag |-> ParentTag]
         ELSE ParentHit(tv, reps, RequestDirectParent(ParentTag))

RECURSIVE RepoMajorHit(_, _, _)
\* fault variant: each repository is searched through the whole hierarchy
\* before the next repository is looked at
RepoMajorHit(tv, reps, Tag) ==
    IF reps = << >> THEN NoHit
    ELSE IF ParentHit(tv, <<Head(reps)>>, Tag) # NoHit /\ TagIsValid(Tag)
         THEN ParentHit(tv, <<Head(reps)>>, Tag)
         ELSE RepoMajorHit(tv, Tail(reps), Tag)

\* fault variant: the repositories are searched from the back of the list
LastFirstHit(tv, reps, Tag) ==
    LET rev == [i \in 1..Len(reps) |-> reps[Len(reps) + 1 - i]]
    IN  IF FirstHolding(tv, rev, Tag) # NullRepo
        THEN [repo |-> FirstHolding(tv, rev, Tag), tag |-> Tag]
        ELSE ParentHit(tv, rev, RequestDirectParent(Tag))

\* fault variant: the ancestors are searched from the root downwards
FarthestHit(tv, reps, Tag) ==
    IF FirstHolding(tv, reps, Tag) # NullRepo
    THEN [repo |-> FirstHolding(tv, reps, Tag), tag |-> Tag]
    ELSE LET P == { n \in 1..(Len(Tag) - 1) :
                      FirstHolding(tv, reps, SubSeq(Tag, 1, n)) # NullRepo }
         IN  IF P = {} THEN NoHit
             ELSE LET n == CHOOSE m \in P : \A k \in P : m <= k
                  IN  [repo |-> FirstHolding(tv, reps, SubSeq(Tag, 1, n)),
                       tag  |-> SubSeq(Tag, 1, n)]

\* where GetRawValue finds its answer: exact match in list order, then the
\* ancestors from the direct parent upwards, each in list order
RawHit(tv, reps, Tag) ==
    IF FirstHolding(tv, reps, Tag) # NullRepo
    THEN [repo |-> FirstHolding(tv, reps, Tag), tag |-> Tag]
    ELSE ParentHit(tv, reps, RequestDirectParent(Tag))

\* UGameplayTagValueSubsystem::GetRawValue (the context is not consulted)
\* fault variant: among the repositories holding the tag the one standing last
\* in the list answers
GetRawValue_LastHolder(Tag) ==
    LET hit == LastFirstHit(TagValues, Repositories, Tag)
    IN  IF hit = NoHit THEN nullptr ELSE GetValue(TagValues, hit.repo, hit.tag)

GetRawValue(Tag) ==
    LET hit == RawHit(TagValues, Repositories, Tag)
    IN  IF hit = NoHit THEN nullptr ELSE GetValue(TagValues, hit.repo, hit.tag)

Miss == [ok |-> FALSE, value |-> 0]

\* UGameplayTagValueSubsystem::TryGetValueFromContext<T>
\* fault variant: the context answers for the nearest ancestor it holds too
TryGetValueFromContext_Inherits(Context, Tag, T, DefaultValue) ==
    LET held == { n \in 1..Len(Tag) : ContextHasTagValue(SubSeq(Tag, 1, n)) }
        Nearest == SubSeq(Tag, 1, CHOOSE n \in held : \A m \in held : m <= n)
    IN  IF Context = "null" \/ ~ImplementsTagValueInterface(Context) THEN Miss
        ELSE IF held = {} THEN Miss
        ELSE IF T = "double"
             THEN [ok |-> TRUE,
                   value |-> ContextGetValue(Nearest, "float", ToFloat(DefaultValue))]
             ELSE [ok |-> TRUE, value |-> ContextGetValue(Nearest, T, DefaultValue)]

TryGetValueFromContext(Context, Tag, T, DefaultValue) ==
    IF Context = "null" \/ ~ImplementsTagValueInterface(Context) THEN Miss
    ELSE IF ~ContextHasTagValue(Tag) THEN Miss
    ELSE IF T = "double"
         THEN [ok |-> TRUE, value |-> ContextGetValue(Tag, "float", ToFloat(DefaultValue))]
         ELSE [ok |-> TRUE, value |-> ContextGetValue(Tag, T, DefaultValue)]

\* UGameplayTagValueSubsystem::TryGetValueFromRepositories<T>
\* fault variant: entries of another type are skipped, the first entry of type
\* T found for the tag or an ancestor answers
TryGetValueFromRepositories_SkipOtherTypes(Tag, T) ==
    LET found == { c \in (1..Len(Repositories)) \X (1..Len(Tag)) :
                      GetValue(TagValues, Repositories[c[1]], SubSeq(Tag, 1, c[2])).type = T }
        first == CHOOSE c \in found :
                    \A e \in found : e[2] < c[2] \/ (e[2] = c[2] /\ e[1] >= c[1])
    IN  IF found = {} THEN Miss
        ELSE [ok |-> TRUE,
              value |-> GetValue(TagValues, Repositories[first[1]],
                                 SubSeq(Tag, 1, first[2])).val]

TryGetValueFromRepositories(Tag, T) ==
    LET ValueHolder == GetRawValue(Tag)
    IN  IF ValueHolder = nullptr THEN Miss
        ELSE IF ValueHolder.type # T THEN Miss
        ELSE [ok |-> TRUE, value |-> ValueHolder.val]

\* fault variant: the repositories are asked before the context
RepositoriesFirstTypedValue(Tag, T, DefaultValue, Context) ==
    IF ~TagIsValid(Tag) THEN DefaultValue
    ELSE IF TryGetValueFromRepositories(Tag, T).ok
         THEN TryGetValueFromRepositories(Tag, T).value
         ELSE IF TryGetValueFromContext(Context, Tag, T, DefaultValue).ok
              THEN TryGetValueFromContext(Context, Tag, T, DefaultValue).value
              ELSE DefaultValue

\* fault variant: a miss answers the zero value of the type
ZeroOnMissTypedValue(Tag, T, DefaultValue, Context) ==
    IF ~TagIsValid(Tag) THEN 0
    ELSE IF TryGetValueFromContext(Context, Tag, T, DefaultValue).ok
         THEN TryGetValueFromContext(Context, Tag, T, DefaultValue).value
         ELSE IF TryGetValueFromRepositories(Tag, T).ok
              THEN TryGetValueFromRepositories(Tag, T).value
              ELSE 0

\* UGameplayTagValueSubsystem::GetTypedValue<T>
GetTypedValue(Tag, T, DefaultValue, Context) ==
    IF ~TagIsValid(Tag) THEN DefaultValue
    ELSE IF TryGetValueFromContext(Context, Tag, T, DefaultValue).ok
         THEN TryGetValueFromContext(Context, Tag, T, DefaultValue).value
         ELSE IF TryGetValueFromRepositories(Tag, T).ok
              THEN TryGetValueFromRepositories(Tag, T).value
              ELSE DefaultValue

-----------------------------------------------------------------------------
(* The calls.  ret is the record of the last call: its operation, its      *)
(* arguments and what it returned.                                         *)

Call(op, tag, type, val, name, ctx, repo, ok, result, holder) ==
    [op |-> op, tag |-> tag, type |-> type, val |-> val, name |-> name,
     ctx |-> ctx, repo |-> repo, ok |-> ok, result |-> result, holder |-> holder]

\* what the configured data assets put into the default repository during
\* Initialize (RegisterConfiguredDataAssets): nothing, or one of two tables
ConfiguredDataAssets ==
    { [t \in AllTags |-> NoEntry],
      [t \in AllTags |-> IF t = <<"a", "b">> THEN TTagValueHolder("int32", 1) ELSE NoEntry],
      [t \in AllTags |-> IF t = <<"a">> THEN TTagValueHolder("double", 2) ELSE NoEntry] }

\* UGameplayTagValueSubsystem::Initialize: the default repository is registered
\* and the configured data assets are imported into it
Init ==
    /\ Repositories = <<"D">>
    /\ \E Rows \in ConfiguredDataAssets :
          TagValues = [r \in RepoIds |->
                         IF r = "D" THEN Rows ELSE [t \in AllTags |-> NoEntry]]
    /\ OnTagValueChanged = << >>
    /\ ret = Call("Initialize", EmptyTag, "none", 0, NAME_None, "null", "D",
                  TRUE, 0, nullptr)
    /\ steps = 0

\* fault variant: the repository of the same name is not removed first
RegisterRepository_KeepSameName(Repository) ==
    /\ steps < MaxSteps
    /\ steps' = steps + 1
    /\ IF Repository = NullRepo
       THEN Repositories' = Repositories
       ELSE Repositories' \in Sort(Repositories \o <<Repository>>)
    /\ ret' = Call("RegisterRepository", EmptyTag, "none", 0, NAME_None, "null",
                   Repository, TRUE, 0, nullptr)
    /\ UNCHANGED <<TagValues, OnTagValueChanged>>

\* fault variant: the list is not sorted after the repository is added
RegisterRepository_NoSort(Repository) ==
    /\ steps < MaxSteps
    /\ steps' = steps + 1
    /\ IF Repository = NullRepo
       THEN Repositories' = Repositories
       ELSE Repositories' =
               RemoveAll(Repositories, GetRepositoryName(Repository)) \o <<Repository>>
    /\ ret' = Call("RegisterRepository", EmptyTag, "none", 0, NAME_None, "null",
                   Repository, TRUE, 0, nullptr)
    /\ UNCHANGED <<TagValues, OnTagValueChanged>>

\* UGameplayTagValueSubsystem::RegisterRepository
RegisterRepository(Repository) ==
    /\ steps < MaxSteps
    /\ steps' = steps + 1
    /\ IF Repository = NullRepo
       THEN Repositories' = Repositories
       ELSE Repositories' \in
               Sort(RemoveAll(Repositories, GetRepositoryName(Repository)) \o <<Repository>>)
    /\ ret' = Call("RegisterRepository", EmptyTag, "none", 0, NAME_None, "null",
                   Repository, TRUE, 0, nullptr)
    /\ UNCHANGED <<TagValues, OnTagValueChanged>>

\* UGameplayTagValueSubsystem::UnregisterRepository
UnregisterRepository(RepositoryName) ==
    /\ steps < MaxSteps
    /\ steps' = steps + 1
    /\ Repositories' = RemoveAll(Repositories, RepositoryName)
    /\ ret' = Call("UnregisterRepository", EmptyTag, "none", 0, RepositoryName, "null",
                   NullRepo, TRUE, 0, nullptr)
    /\ UNCHANGED <<TagValues, OnTagValueChanged>>

\* UGameplayTagValueSubsystem::Deinitialize
Deinitialize ==
    /\ steps < MaxSteps
    /\ steps' = steps + 1
    /\ Repositories' = << >>
    /\ ret' = Call("Deinitialize", EmptyTag, "none", 0, NAME_None, "null",
                   NullRepo, TRUE, 0, nullptr)
    /\ UNCHANGED <<TagValues, OnTagValueChanged>>

\* the holders handed to SetRawValue: null and a holder of a type the
\* component repository has no tag value for
RawHolders == {nullptr, TTagValueHolder("FVector", 1)}

\* the tags handed to SetRawValue and to the component's own setters
RawTags == {<<"a">>, EmptyTag}

\* fault variant: the value is also written to the default repository
SetRawValue_AlsoDefault(op, Tag, Value, RepositoryName) ==
    LET Repository == GetBestRepository(RepositoryName)
        ok == TagIsValid(Tag) /\ Value # nullptr /\ Repository # NullRepo
    IN  /\ steps < MaxSteps
        /\ steps' = steps + 1
        /\ TagValues' = IF ok
                        THEN SetValue(SetValue(TagValues, Repository, Tag, Value), "D", Tag, Value)
                        ELSE TagValues
        /\ ret' = Call(op, Tag, Value.type, Value.val, RepositoryName, "null",
                       IF ok THEN Repository ELSE NullRepo, ok, 0, Value)
        /\ UNCHANGED <<Repositories, OnTagValueChanged>>

\* UGameplayTagValueSubsystem::SetRawValue; op names the entry point, SetRawValue
\* itself or the typed SetXValue that wraps the value in a holder
SetRawValueBody(op, Tag, Value, RepositoryName) ==
    LET Repository == GetBestRepository(RepositoryName)
        ok == TagIsValid(Tag) /\ Value # nullptr /\ Repository # NullRepo
    IN  /\ steps < MaxSteps
        /\ steps' = steps + 1
        /\ TagValues' = IF ok THEN SetValue(TagValues, Repository, Tag, Value) ELSE TagValues
        /\ ret' = Call(op, Tag, Value.type, Value.val, RepositoryName, "null",
                       IF ok THEN Repository ELSE NullRepo, ok, 0, Value)
        /\ UNCHANGED <<Repositories, OnTagValueChanged>>

SetRawValue(Tag, Value, RepositoryName) ==
    SetRawValueBody("SetRawValue", Tag, Value, RepositoryName)

\* UGameplayTagValueSubsystem::SetTypedValue<T> (SetBoolValue, SetIntValue, SetFloatValue)
SetTypedValue(Tag, T, Value, RepositoryName) ==
    IF ~TagIsValid(Tag)
    THEN /\ steps < MaxSteps
         /\ steps' = steps + 1
         /\ ret' = Call("SetTypedValue", Tag, T, Value, RepositoryName, "null",
                        NullRepo, FALSE, 0, TTagValueHolder(T, Value))
         /\ UNCHANGED <<Repositories, TagValues, OnTagValueChanged>>
    ELSE SetRawValueBody("SetTypedValue", Tag, TTagValueHolder(T, Value), RepositoryName)

RECURSIVE RemoveFromAll(_, _, _)
\* the loop of RemoveTagValue over all repositories
RemoveFromAll(tv, reps, Tag) ==
    IF reps = << >> THEN tv
    ELSE IF HasValue(tv, Head(reps), Tag)
         THEN RemoveFromAll(RemoveValue(tv, Head(reps), Tag), Tail(reps), Tag)
         ELSE RemoveFromAll(tv, Tail(reps), Tag)

\* fault variant: a named removal removes the tag from every repository
RemoveTagValue_Everywhere(Tag, RepositoryName) ==
    LET bRemovedAny ==
            /\ TagIsValid(Tag)
            /\ \E r \in Range(Repositories) : HasValue(TagValues, r, Tag)
    IN  /\ steps < MaxSteps
        /\ steps' = steps + 1
        /\ TagValues' = IF ~TagIsValid(Tag) THEN TagValues
                        ELSE RemoveFromAll(TagValues, Repositories, Tag)
        /\ ret' = Call("RemoveTagValue", Tag, "none", 0, RepositoryName, "null",
                       NullRepo, bRemovedAny, 0, nullptr)
        /\ UNCHANGED <<Repositories, OnTagValueChanged>>

\* UGameplayTagValueSubsystem::RemoveTagValue
RemoveTagValue(Tag, RepositoryName) ==
    LET Repository == GetRepository(RepositoryName)
        bRemovedAny ==
            /\ TagIsValid(Tag)
            /\ IF RepositoryName # NAME_None
               THEN Repository # NullRepo /\ HasValue(TagValues, Repository, Tag)
               ELSE \E r \in Range(Repositories) : HasValue(TagValues, r, Tag)
    IN  /\ steps < MaxSteps
        /\ steps' = steps + 1
        /\ TagValues' =
              IF ~TagIsValid(Tag) THEN TagValues
              ELSE IF RepositoryName # NAME_None
                   THEN IF bRemovedAny THEN RemoveValue(TagValues, Repository, Tag)
                                       ELSE TagValues
                   ELSE RemoveFromAll(TagValues, Repositories, Tag)
        /\ ret' = Call("RemoveTagValue", Tag, "none", 0, RepositoryName, "null",
                       NullRepo, bRemovedAny, 0, nullptr)
        /\ UNCHANGED <<Repositories, OnTagValueChanged>>

RECURSIVE ClearAll(_, _)
\* the loop of ClearAllValues over all repositories
ClearAll(tv, reps) ==
    IF reps = << >> THEN tv
    ELSE ClearAll(RepoClearAllValues(tv, Head(reps)), Tail(reps))

\* fault variant: a name that is not registered clears the default repository
ClearAllValues_BestRepository(RepositoryName) ==
    LET Repository == GetBestRepository(RepositoryName)
    IN  /\ steps < MaxSteps
        /\ steps' = steps + 1
        /\ TagValues' =
              IF RepositoryName # NAME_None
              THEN IF Repository # NullRepo
                   THEN RepoClearAllValues(TagValues, Repository)
                   ELSE TagValues
              ELSE ClearAll(TagValues, Repositories)
        /\ ret' = Call("ClearAllValues", EmptyTag, "none", 0, RepositoryName, "null",
                       NullRepo, TRUE, 0, nullptr)
        /\ UNCHANGED <<Repositories, OnTagValueChanged>>

\* UGameplayTagValueSubsystem::ClearAllValues
ClearAllValues(RepositoryName) ==
    LET Repository == GetRepository(RepositoryName)
    IN  /\ steps < MaxSteps
        /\ steps' = steps + 1
        /\ TagValues' =
              IF RepositoryName # NAME_None
              THEN IF Repository # NullRepo
                   THEN RepoClearAllValues(TagValues, Repository)
                   ELSE TagValues
              ELSE ClearAll(TagValues, Repositories)
        /\ ret' = Call("ClearAllValues", EmptyTag, "none", 0, RepositoryName, "null",
                       NullRepo, TRUE, 0, nullptr)
        /\ UNCHANGED <<Repositories, OnTagValueChanged>>

\* UTagValueRepositoryComponent::SetBoolTagValue / SetIntTagValue / SetFloatTagValue,
\* called on the component itself (FTagValueContainer::SetValue: remove, then add)
ComponentSetTagValue(r, InTag, ValueType, InValue) ==
    /\ steps < MaxSteps
    /\ steps' = steps + 1
    /\ IsComponent(r)
    /\ TagValues' = [RemoveValue(TagValues, r, InTag) EXCEPT
                        ![r][InTag] = [type |-> ValueType, val |-> InValue]]
    /\ ret' = Call("ComponentSetTagValue", InTag, ValueType, InValue, NAME_None, "null",
                   r, TRUE, 0, nullptr)
    /\ UNCHANGED <<Repositories, OnTagValueChanged>>

\* a call of GetIntValue / GetFloatValue
GetTypedValueCall(Tag, T, DefaultValue, Context) ==
    /\ steps < MaxSteps
    /\ steps' = steps + 1
    /\ ret' = Call("GetTypedValue", Tag, T, DefaultValue, NAME_None, Context,
                   NullRepo, TRUE, GetTypedValue(Tag, T, DefaultValue, Context), nullptr)
    /\ UNCHANGED <<Repositories, TagValues, OnTagValueChanged>>

\* a call of GetRawValue
GetRawValueCall(Tag, Context) ==
    /\ steps < MaxSteps
    /\ steps' = steps + 1
    /\ ret' = Call("GetRawValue", Tag, "none", 0, NAME_None, Context,
                   NullRepo, GetRawValue(Tag) # nullptr, 0, GetRawValue(Tag))
    /\ UNCHANGED <<Repositories, TagValues, OnTagValueChanged>>

\* fault variant: the parent tags are not checked
HasTagValue_ExactOnly(Tag, Context) ==
    \/ /\ Context # "null"
       /\ ImplementsTagValueInterface(Context)
       /\ ContextHasTagValue(Tag)
    \/ FirstHolding(TagValues, Repositories, Tag) # NullRepo

\* UGameplayTagValueSubsystem::HasTagValue: the context, then the repositories
\* for the tag, then the repositories for each parent tag
HasTagValue(Tag, Context) ==
    \/ /\ Context # "null"
       /\ ImplementsTagValueInterface(Context)
       /\ ContextHasTagValue(Tag)
    \/ FirstHolding(TagValues, Repositories, Tag) # NullRepo
    \/ ParentHit(TagValues, Repositories, RequestDirectParent(Tag)) # NoHit

\* a call of HasTagValue
HasTagValueCall(Tag, Context) ==
    /\ steps < MaxSteps
    /\ steps' = steps + 1
    /\ ret' = Call("HasTagValue", Tag, "none", 0, NAME_None, Context,
                   NullRepo, HasTagValue(Tag, Context), 0, nullptr)
    /\ UNCHANGED <<Repositories, TagValues, OnTagValueChanged>>

\* the world context objects handed to the function library: "World" has a
\* game instance with the subsystem, "null" has none
WorldContextObjects == {"World", "null"}

\* UGameplayTagValueFunctionLibrary::GetGameplayTagValueSubsystem
GetGameplayTagValueSubsystem(WorldContextObject) ==
    IF WorldContextObject = "null" THEN "null" ELSE "Subsystem"

\* UGameplayTagValueFunctionLibrary::GetIntTagValue; the call record keeps the
\* world context object in its name field, bSuccess in ok and the returned
\* value in result
GetIntTagValue(WorldContextObject, Tag, DefaultValue, Context) ==
    LET Subsystem == GetGameplayTagValueSubsystem(WorldContextObject)
        bSuccess == IF Subsystem = "null" THEN FALSE ELSE HasTagValue(Tag, Context)
        Value == IF Subsystem = "null" THEN DefaultValue
                 ELSE GetTypedValue(Tag, "int32", DefaultValue, Context)
    IN  /\ steps < MaxSteps
        /\ steps' = steps + 1
        /\ ret' = Call("GetIntTagValue", Tag, "int32", DefaultValue, WorldContextObject,
                       Context, NullRepo, bSuccess, Value, nullptr)
        /\ UNCHANGED <<Repositories, TagValues, OnTagValueChanged>>

\* the data tables handed to ImportFromDataTable: none, or a table of
\* FTagValueMapping rows
DataTables == {"null", "Table"}

\* UDataTable::GetRowMap: the table has a row for tag a and a row whose tag
\* is not valid
GetRowMap(DataTable) ==
    IF DataTable = "null" THEN << >>
    ELSE << [Tag |-> <<"a">>,
             Value |-> [BoolValue |-> 1, IntegerValue |-> 2, FloatValue |-> 2,
                        TransformValue |-> 1, ClassValue |-> 1, ObjectValue |-> 1]],
            [Tag |-> EmptyTag,
             Value |-> [BoolValue |-> 1, IntegerValue |-> 1, FloatValue |-> 2,
                        TransformValue |-> 1, ClassValue |-> 1, ObjectValue |-> 1]] >>

\* the holders ImportFromDataTable makes of a row, in the order it sets them
RowHolders(Mapping) ==
    << TTagValueHolder("bool", Mapping.Value.BoolValue),
       TTagValueHolder("int32", Mapping.Value.IntegerValue),
       TTagValueHolder("double", Mapping.Value.FloatValue),
       TTagValueHolder("FTransform", Mapping.Value.TransformValue),
       TTagValueHolder("FSoftClassPath", Mapping.Value.ClassValue),
       TTagValueHolder("FSoftObjectPath", Mapping.Value.ObjectValue) >>

RECURSIVE SetValues(_, _, _, _)
\* the six successive Repository->SetValue(Mapping->Tag, ...) of one row
SetValues(tv, r, Tag, holders) ==
    IF holders = << >> THEN tv
    ELSE SetValues(SetValue(tv, r, Tag, Head(holders)), r, Tag, Tail(holders))

RECURSIVE ImportRows(_, _, _)
\* the loop of ImportFromDataTable over the rows
ImportRows(tv, r, rows) ==
    IF rows = << >> THEN tv
    ELSE IF TagIsValid(Head(rows).Tag)
         THEN ImportRows(SetValues(tv, r, Head(rows).Tag, RowHolders(Head(rows))),
                         r, Tail(rows))
         ELSE ImportRows(tv, r, Tail(rows))

\* the ImportCount of ImportFromDataTable
ImportCount(rows) ==
    Cardinality({ i \in 1..Len(rows) : TagIsValid(rows[i].Tag) })

\* UGameplayTagValueSubsystem::ImportFromDataTable; the call record keeps the
\* data table in its ctx field and the returned count in result
ImportFromDataTable(DataTable, RepositoryName) ==
    LET Repository == GetBestRepository(RepositoryName)
        ok == DataTable # "null" /\ Repository # NullRepo
    IN  /\ steps < MaxSteps
        /\ steps' = steps + 1
        /\ TagValues' = IF ok THEN ImportRows(TagValues, Repository, GetRowMap(DataTable))
                              ELSE TagValues
        /\ ret' = Call("ImportFromDataTable", EmptyTag, "none", 0, RepositoryName,
                       DataTable, IF ok THEN Repository ELSE NullRepo, ok,
                       IF ok THEN ImportCount(GetRowMap(DataTable)) ELSE 0, nullptr)
        /\ UNCHANGED <<Repositories, OnTagValueChanged>>

\* FMemoryTagValueRepository::GetAllTags (the keys of the map) and
\* UTagValueRepositoryComponent::GetAllTags (the tags of the container)
RepoGetAllTags(tv, r) == { t \in AllTags : tv[r][t] # NoEntry }

RECURSIVE CollectTags(_, _)
\* the loop of GetAllTags: UniqueTagsSet.Append(Repository->GetAllTags())
CollectTags(tv, reps) ==
    IF reps = << >> THEN {}
    ELSE RepoGetAllTags(tv, Head(reps)) \cup CollectTags(tv, Tail(reps))

\* TSet::GetKeys: the elements of the set, each once, in an order that the
\* set chooses
GetKeys(S) ==
    { p \in [1..Cardinality(S) -> S] : \A x \in S : \E i \in 1..Cardinality(S) : p[i] = x }

\* fault variant: the tags are collected into an array, repository by repository
GetAllTags_Array ==
    /\ steps < MaxSteps
    /\ steps' = steps + 1
    /\ \E Result \in
            IF Repositories = << >> THEN {<< >>}
            ELSE { p \o q : p \in GetKeys(RepoGetAllTags(TagValues, Head(Repositories))),
                            q \in GetKeys(CollectTags(TagValues, Tail(Repositories))) } :
          ret' = Call("GetAllTags", EmptyTag, "none", 0, NAME_None, "null",
                      NullRepo, TRUE, Result, nullptr)
    /\ UNCHANGED <<Repositories, TagValues, OnTagValueChanged>>

\* UGameplayTagValueSubsystem::GetAllTags
GetAllTags ==
    /\ steps < MaxSteps
    /\ steps' = steps + 1
    /\ \E Result \in GetKeys(CollectTags(TagValues, Repositories)) :
          ret' = Call("GetAllTags", EmptyTag, "none", 0, NAME_None, "null",
                      NullRepo, TRUE, Result, nullptr)
    /\ UNCHANGED <<Repositories, TagValues, OnTagValueChanged>>

Next ==
    \/ \E R \in RepoIds \cup {NullRepo} : RegisterRepository(R)
    \/ \E N \in RepositoryNames \ {NAME_None} : UnregisterRepository(N)
    \/ Deinitialize
    \/ \E Tag \in RawTags, H \in RawHolders, N \in RepositoryNames : SetRawValue(Tag, H, N)
    \/ \E Tag \in AllTags, H \in TypedValues, N \in RepositoryNames :
          SetTypedValue(Tag, H.type, H.val, N)
    \/ \E Tag \in AllTags, N \in RepositoryNames : RemoveTagValue(Tag, N)
    \/ \E N \in RepositoryNames : ClearAllValues(N)
    \/ \E r \in {"C1", "C2"}, Tag \in RawTags : ComponentSetTagValue(r, Tag, "Int", 1)
    \/ \E Tag \in AllTags, T \in TypedTypes, d \in DefaultVals, C \in Contexts :
          GetTypedValueCall(Tag, T, d, C)
    \/ \E Tag \in AllTags : GetRawValueCall(Tag, "null")
    \/ GetAllTags
    \/ \E Tag \in AllTags, C \in Contexts : HasTagValueCall(Tag, C)
    \/ \E N \in RepositoryNames : ImportFromDataTable("Table", N)
    \/ ImportFromDataTable("null", NAME_None)
    \/ \E Tag \in AllTags, d \in DefaultVals, C \in {"null", "Ctx"} :
          GetIntTagValue("World", Tag, d, C)
    \/ \E Tag \in RawTags, d \in DefaultVals : GetIntTagValue("null", Tag, d, "null")

Spec == Init /\ [][Next]_vars

-----------------------------------------------------------------------------
(* Vocabulary of the properties.                                           *)

Registered == Range(Repositories)

\* the registered repositories holding an entry for exactly Tag
Holders(Tag) == { r \in Registered : HasValue(TagValues, r, Tag) }

\* the proper ancestors of Tag, from the root to the direct parent
Ancestors(Tag) == { SubSeq(Tag, 1, n) : n \in 1..(Len(Tag) - 1) }

HeldAncestors(Tag) == { A \in Ancestors(Tag) : Holders(A) # {} }

NearestHeldAncestor(Tag) ==
    CHOOSE A \in HeldAncestors(Tag) : \A B \in HeldAncestors(Tag) : Len(B) <= Len(A)

\* the holders of Tag that no other holder of Tag outranks
TopHolders(Tag) ==
    { r \in Holders(Tag) : \A q \in Holders(Tag) : GetPriority(q) <= GetPriority(r) }

\* what a typed get of type T with default d makes of the holder it is handed
TypedView(Holder, T, d) ==
    IF Holder # nullptr /\ Holder.type = T THEN Holder.val ELSE d

IsGet == ret.op \in {"GetTypedValue", "GetRawValue"}

\* the last call was a get of ret.tag that repository r answered with its
\* entry for Tag
AnsweredFrom(r, Tag) ==
    IF ret.op = "GetRawValue"
    THEN ret.holder = GetValue(TagValues, r, Tag)
    ELSE ret.result = TypedView(GetValue(TagValues, r, Tag), ret.type, ret.val)

SetOps == {"SetRawValue", "SetTypedValue"}

\* the registered repositories of a given name
Named(RepositoryName) ==
    { r \in Registered : GetRepositoryName(r) = RepositoryName }

-----------------------------------------------------------------------------
\* C1: with no context, when some registered repository holds a value for
\* exactly the queried tag, a typed get is answered from a repository holding
\* exactly that tag (the exact level is searched through all repositories
\* before any ancestor), also when a repository of strictly higher priority
\* holds only an ancestor.
ExactLevelBeforeAncestors ==
    (/\ ret.op = "GetTypedValue"
     /\ ret.ctx = "null"
     /\ TagIsValid(ret.tag)
     /\ Holders(ret.tag) # {})
    => \E r \in Holders(ret.tag) : AnsweredFrom(r, ret.tag)

\* a typed get of a.b answered with the int the default repository holds for
\* a.b while the repository of priority 200 holds another int for a only
ExactLevelBeforeAncestorsWitness ==
    /\ ret.op = "GetTypedValue" /\ ret.ctx = "null" /\ ret.type = "int32"
    /\ ret.tag = <<"a", "b">>
    /\ Repositories = <<"M1", "D">>
    /\ ~HasValue(TagValues, "M1", <<"a", "b">>)
    /\ TagValues["M1"][<<"a">>] = TTagValueHolder("int32", 2)
    /\ TagValues["D"][<<"a", "b">>] = TTagValueHolder("int32", 1)
    /\ ret.result = 1

\* C2: with no context, when two or more registered repositories of pairwise
\* different priorities hold a value for exactly the queried tag, GetRawValue
\* and the typed gets return the value of the one with the highest priority.
HighestPriorityHolderWins ==
    (/\ IsGet
     /\ ret.ctx = "null"
     /\ TagIsValid(ret.tag)
     /\ Cardinality(Holders(ret.tag)) >= 2
     /\ \A p, q \in Holders(ret.tag) : p # q => GetPriority(p) # GetPriority(q))
    => \A r \in TopHolders(ret.tag) : AnsweredFrom(r, ret.tag)

\* a get of a with the default repository and the repository of priority 200
\* holding different values for a, answered with the latter
HighestPriorityHolderWinsWitness ==
    /\ ret.op = "GetTypedValue" /\ ret.ctx = "null" /\ ret.type = "int32"
    /\ ret.tag = <<"a">>
    /\ Holders(<<"a">>) = {"D", "M1"}
    /\ TagValues["D"][<<"a">>] = TTagValueHolder("double", 2)
    /\ TagValues["M1"][<<"a">>] = TTagValueHolder("int32", 2)
    /\ ret.val = 3
    /\ ret.result = 2

\* C3: when no registered repository holds the exact tag, a get is answered
\* with the value of the nearest ancestor any repository holds, taken from a
\* repository of the highest priority among the holders of that ancestor.
NearestAncestorInherited ==
    (/\ IsGet
     /\ ret.ctx = "null"
     /\ TagIsValid(ret.tag)
     /\ Holders(ret.tag) = {}
     /\ HeldAncestors(ret.tag) # {})
    => \E r \in TopHolders(NearestHeldAncestor(ret.tag)) :
          AnsweredFrom(r, NearestHeldAncestor(ret.tag))

\* a get of a.b.c answered with the value the default repository holds for
\* a.b while the repository of priority 200 holds another value for a
NearestAncestorInheritedWitness ==
    /\ ret.op = "GetTypedValue" /\ ret.ctx = "null" /\ ret.type = "int32"
    /\ ret.tag = <<"a", "b", "c">>
    /\ Holders(<<"a", "b", "c">>) = {}
    /\ Repositories = <<"M1", "D">>
    /\ TagValues["D"][<<"a", "b">>] = TTagValueHolder("int32", 1)
    /\ TagValues["M1"][<<"a">>] = TTagValueHolder("int32", 2)
    /\ ~HasValue(TagValues, "M1", <<"a", "b">>)
    /\ ret.result = 1

\* the value the context supplies for a typed get (GetFloatValue of the
\* interface takes and returns float)
SuppliedByContext(Tag, T, d) ==
    IF T = "double" THEN ContextGetValue(Tag, "float", ToFloat(d))
                    ELSE ContextGetValue(Tag, T, d)

\* C4: a typed get of a valid tag with a context that implements the tag-value
\* interface and reports the tag returns the value the context supplies,
\* whatever the repositories hold for the tag or its ancestors.
ContextTakesPrecedence ==
    (/\ ret.op = "GetTypedValue"
     /\ TagIsValid(ret.tag)
     /\ ImplementsTagValueInterface(ret.ctx)
     /\ ContextHasTagValue(ret.tag))
    => ret.result = SuppliedByContext(ret.tag, ret.type, ret.val)

\* a typed get of a with the context answered 1 by the context while the
\* first repository holding a holds 2
ContextTakesPrecedenceWitness ==
    /\ ret.op = "GetTypedValue" /\ ret.ctx = "Ctx" /\ ret.type = "int32"
    /\ ret.tag = <<"a">>
    /\ GetRawValue(<<"a">>) = TTagValueHolder("int32", 2)
    /\ ret.result = 1

\* a get that neither the context nor any repository can answer
IsMiss ==
    \/ ~TagIsValid(ret.tag)
    \/ /\ ~(ImplementsTagValueInterface(ret.ctx) /\ ContextHasTagValue(ret.tag))
       /\ Holders(ret.tag) = {}
       /\ HeldAncestors(ret.tag) = {}

\* C5: a typed get returns exactly the caller's default when the tag is
\* invalid or when neither the context holds the exact tag nor any registered
\* repository holds the tag or one of its ancestors; a get changes no
\* repository.
MissReturnsDefault ==
    /\ []((ret.op = "GetTypedValue" /\ IsMiss) => ret.result = ret.val)
    /\ [][ret'.op \in {"GetTypedValue", "GetRawValue"}
            => (TagValues' = TagValues /\ Repositories' = Repositories)]_vars

\* a typed get of the invalid tag answered with the default 3 while a registered
\* component repository holds an entry under the invalid tag
MissReturnsDefaultWitness ==
    /\ ret.op = "GetTypedValue" /\ ret.type = "int32"
    /\ ret.tag = EmptyTag
    /\ Holders(EmptyTag) # {}
    /\ ret.val = 3
    /\ ret.result = 3

\* C6: the repository list is sorted by non-increasing priority in every
\* state: no repository stands before one of strictly higher priority.
RepositoriesSortedByPriority ==
    \A i, j \in 1..Len(Repositories) :
        i < j => GetPriority(Repositories[i]) >= GetPriority(Repositories[j])

\* three repositories registered, the one of priority 200 registered last and
\* standing first
RepositoriesSortedByPriorityWitness ==
    /\ ret.op = "RegisterRepository" /\ ret.repo = "M1"
    /\ Len(Repositories) = 3
    /\ Repositories[1] = "M1"

\* C7: no two registered repositories have the same name; registering a valid
\* repository makes GetRepository of its name return it, the repository of
\* the same name registered before being removed; registering null leaves the
\* registry unchanged.
RepositoryNamesUnique ==
    /\ [](/\ \A i, j \in 1..Len(Repositories) :
               i # j => GetRepositoryName(Repositories[i]) # GetRepositoryName(Repositories[j])
          /\ (ret.op = "RegisterRepository" /\ ret.repo # NullRepo)
               => GetRepository(GetRepositoryName(ret.repo)) = ret.repo)
    /\ [][(ret'.op = "RegisterRepository" /\ ret'.repo = NullRepo)
            => Repositories' = Repositories]_vars

\* the component named High registered after the memory repository named High
\* had been registered and written to; only the component is left
RepositoryNamesUniqueWitness ==
    /\ ret.op = "RegisterRepository" /\ ret.repo = "C1"
    /\ \E t \in ValidTags : HasValue(TagValues, "M1", t)
    /\ "M1" \notin Registered
    /\ GetRepository("High") = "C1"

\* C8: every set, remove or clear through the subsystem that changes a stored
\* value broadcasts OnTagValueChanged before it returns, with the tag, the
\* name of the repository, the old and the new value.
ChangeIsBroadcast ==
    [][(ret'.op \in SetOps \cup {"RemoveTagValue", "ClearAllValues"})
         => \A r \in RepoIds, t \in AllTags :
               TagValues'[r][t] # TagValues[r][t]
               => \E i \in (Len(OnTagValueChanged) + 1)..Len(OnTagValueChanged') :
                     OnTagValueChanged'[i] =
                        [Tag |-> t, RepositoryName |-> GetRepositoryName(r),
                         OldValue |-> GetValue(TagValues, r, t),
                         NewValue |-> GetValue(TagValues', r, t)]]_vars

\* C9 as stated: a successful typed set with a repository name writes to the
\* registered repository of that name, with None to the repository named
\* Default, and to nothing else.
SetWritesNamedRepository ==
    [][(ret'.op = "SetTypedValue" /\ ret'.ok)
         => \E target \in Named(IF ret'.name = NAME_None THEN DefaultRepositoryName
                                                        ELSE ret'.name) :
               /\ HasValue(TagValues', target, ret'.tag)
               /\ \A r \in RepoIds \ {target} : TagValues'[r] = TagValues[r]
               /\ \A t \in AllTags \ {ret'.tag} :
                     TagValues'[target][t] = TagValues[target][t]]_vars

\* the repository a set of RepositoryName is aimed at: the registered one of
\* that name, else the one named Default
SetTargets(RepositoryName) ==
    IF RepositoryName # NAME_None /\ Named(RepositoryName) # {}
    THEN Named(RepositoryName)
    ELSE Named(DefaultRepositoryName)

\* C9 (amended): a successful typed set writes to exactly one repository, the
\* registered repository named RepositoryName when there is one, else (None,
\* or a name no registered repository has) the repository named Default; all
\* other repositories and all other tags of the target are unchanged.
SetWritesBestRepository ==
    [][(ret'.op = "SetTypedValue" /\ ret'.ok)
         => \E target \in SetTargets(ret'.name) :
               /\ HasValue(TagValues', target, ret'.tag)
               /\ \A r \in RepoIds \ {target} : TagValues'[r] = TagValues[r]
               /\ \A t \in AllTags \ {ret'.tag} :
                     TagValues'[target][t] = TagValues[target][t]]_vars

\* a successful typed set aimed at High while no repository named High is
\* registered: the default repository holds the value
SetWritesBestRepositoryWitness ==
    /\ ret.op = "SetTypedValue" /\ ret.ok
    /\ ret.name = "High"
    /\ Named("High") = {}
    /\ TagValues["D"][ret.tag] = ret.holder
    /\ Len(Repositories) = 2

\* C10: a set returns true only if the value was set (the selected repository
\* holds the tag afterwards), and a set that returns false leaves every
\* repository unchanged.
SetResultTruthful ==
    /\ []((ret.op \in SetOps /\ ret.ok)
            => \E target \in SetTargets(ret.name) : HasValue(TagValues, target, ret.tag))
    /\ [][(ret'.op \in SetOps /\ ~ret'.ok) => TagValues' = TagValues]_vars

\* the repositories a removal or a clear of RepositoryName addresses: the
\* registered one of that name, with None every registered repository
Addressed(RepositoryName) ==
    IF RepositoryName # NAME_None THEN Named(RepositoryName) ELSE Registered

ClearAllValuesFrame ==
    [][(ret'.op = "ClearAllValues")
         => /\ \A r \in RepoIds :
                  IF r \in Addressed(ret'.name)
                  THEN \A t \in AllTags : ~HasValue(TagValues', r, t)
                  ELSE TagValues'[r] = TagValues[r]
            /\ Repositories' = Repositories]_vars

\* a clear by the name of a registered repository after which another
\* registered repository still holds an entry
ClearAllValuesFrameWitness ==
    /\ ret.op = "ClearAllValues"
    /\ ret.name = "Comp"
    /\ Named("Comp") # {}
    /\ \A t \in AllTags : ~HasValue(TagValues, "C2", t)
    /\ "D" \in Registered
    /\ \E t \in AllTags : HasValue(TagValues, "D", t)

\* the tags for which some registered repository holds an exact entry
HeldTags == { t \in AllTags : Holders(t) # {} }

\* C13: GetAllTags returns exactly the tags for which at least one registered
\* repository holds an exact entry: each of them once, also when several
\* repositories hold it, and no tag that no repository holds (a descendant
\* that only inherits a value is not listed).
GetAllTagsExact ==
    (ret.op = "GetAllTags")
    => /\ Range(ret.result) = HeldTags
       /\ Len(ret.result) = Cardinality(HeldTags)

\* GetAllTags called while two registered repositories hold the same tag and
\* a descendant of a held tag is held by none
GetAllTagsExactWitness ==
    /\ ret.op = "GetAllTags"
    /\ \E t \in AllTags : Cardinality(Holders(t)) >= 2
    /\ \E t \in ValidTags :
          /\ Holders(t) = {}
          /\ HeldAncestors(t) # {}
          /\ t \notin Range(ret.result)

\* C14: HasTagValue(T, Context) returns true exactly when the context
\* implements the interface and reports the exact tag T, or some registered
\* repository holds T, or some registered repository holds an ancestor of T;
\* it changes no repository.
HasTagValueExact ==
    /\ []((ret.op = "HasTagValue")
            => (ret.ok <=> \/ /\ ImplementsTagValueInterface(ret.ctx)
                              /\ ContextValues(ret.tag) # NoEntry
                           \/ Holders(ret.tag) # {}
                           \/ HeldAncestors(ret.tag) # {}))
    /\ [][(ret'.op = "HasTagValue")
            => (TagValues' = TagValues /\ Repositories' = Repositories)]_vars

\* HasTagValue answered true for a tag that neither the context nor any
\* repository holds, because a repository holds an ancestor
HasTagValueExactWitness ==
    /\ ret.op = "HasTagValue" /\ ret.ok
    /\ ret.ctx = "Ctx"
    /\ ContextValues(ret.tag) = NoEntry
    /\ Holders(ret.tag) = {}
    /\ HeldAncestors(ret.tag) # {}

\* the value returned by the last library getter was resolved: a subsystem
\* was found, the tag is valid, and the context answered for the tag or the
\* first entry found in the repositories is of the type asked for
Resolved ==
    /\ ret.name # "null"
    /\ TagIsValid(ret.tag)
    /\ \/ /\ ImplementsTagValueInterface(ret.ctx)
          /\ ContextValues(ret.tag) # NoEntry
       \/ GetRawValue(ret.tag).type = ret.type

\* C15: the bSuccess output of a function-library getter is true if and only
\* if the returned value was resolved from the context or a repository, and
\* false if and only if the returned value is the DefaultValue fallback.
SuccessMeansResolved ==
    (ret.op = "GetIntTagValue")
    => /\ ret.ok <=> Resolved
       /\ ~ret.ok <=> (~Resolved /\ ret.result = ret.val)

\* C16: set/get round trip.  After SetXValue(T, v, R) returned true, a
\* GetXValue(T, d) with no context returns v for every default d, provided no
\* registered repository of higher priority than the written one holds T;
\* this is whatever was set for T before (last write wins, also after a set
\* of another type).
SetGetRoundTrip ==
    [][(/\ ret.op = "SetTypedValue" /\ ret.ok
        /\ ret'.op = "GetTypedValue"
        /\ ret'.ctx = "null"
        /\ ret'.tag = ret.tag
        /\ ret'.type = ret.type
        /\ \A r \in Holders(ret.tag) : GetPriority(r) <= GetPriority(ret.repo))
         => ret'.result = ret.val]_vars

\* repository r answers a typed get of the type of Holder of exactly Tag
\* with the value of Holder
RepositoryAnswers(r, Tag, Holder) ==
    /\ GetValue(TagValues, r, Tag) # nullptr
    /\ GetValue(TagValues, r, Tag).type = Holder.type
    /\ GetValue(TagValues, r, Tag).val = Holder.val

\* C17: after ImportFromDataTable the target repository (the named one, or
\* the default when none is given or found) answers a typed get of the tag of
\* every row with a valid tag, for each of bool, int, float, transform, class
\* and object, with the row's field of that type; the returned count is the
\* number of rows with a valid tag; a null table imports nothing and
\* returns 0.
ImportKeepsAllTypes ==
    /\ []((ret.op = "ImportFromDataTable" /\ ret.ctx # "null")
            => LET rows == GetRowMap(ret.ctx)
               IN  /\ ret.result = Cardinality({ i \in 1..Len(rows) : TagIsValid(rows[i].Tag) })
                   /\ \E target \in SetTargets(ret.name) :
                         \A i \in 1..Len(rows) :
                            TagIsValid(rows[i].Tag)
                            => \A j \in 1..Len(RowHolders(rows[i])) :
                                  RepositoryAnswers(target, rows[i].Tag, RowHolders(rows[i])[j]))
    /\ [][(ret'.op = "ImportFromDataTable" /\ ret'.ctx = "null")
            => (ret'.result = 0 /\ TagValues' = TagValues)]_vars

\* the tag level at which the repositories answer for Tag: Tag itself when a
\* registered repository holds it, else its nearest held ancestor
HitLevel(Tag) == IF Holders(Tag) # {} THEN Tag ELSE NearestHeldAncestor(Tag)

\* the holder of Tag that stands first in the repository list
FirstHolder(Tag) ==
    Repositories[CHOOSE i \in 1..Len(Repositories) :
                    /\ HasValue(TagValues, Repositories[i], Tag)
                    /\ \A j \in 1..(i - 1) : ~HasValue(TagValues, Repositories[j], Tag)]

\* C18: a typed get of type X that the context does not answer considers only
\* the first hit in resolution order (the first repository in the list that
\* holds any value at the nearest held tag level); when that value is not of
\* type X the get returns DefaultValue, also when a repository of lower
\* priority or an ancestor tag holds a value of type X.
FirstHitTypeDecides ==
    (/\ ret.op = "GetTypedValue"
     /\ TagIsValid(ret.tag)
     /\ ~(ImplementsTagValueInterface(ret.ctx) /\ ContextValues(ret.tag) # NoEntry)
     /\ (Holders(ret.tag) # {} \/ HeldAncestors(ret.tag) # {})
     /\ GetValue(TagValues, FirstHolder(HitLevel(ret.tag)), HitLevel(ret.tag)).type # ret.type)
    => ret.result = ret.val

\* a float get of a answered with the default 3 because the repository of
\* priority 200 holds an int for a, while the default repository holds the
\* float 2 for a
FirstHitTypeDecidesWitness ==
    /\ ret.op = "GetTypedValue" /\ ret.ctx = "null" /\ ret.type = "double"
    /\ ret.tag = <<"a">>
    /\ Repositories = <<"M1", "D">>
    /\ TagValues["M1"][<<"a">>] = TTagValueHolder("int32", 2)
    /\ TagValues["D"][<<"a">>] = TTagValueHolder("double", 2)
    /\ ret.val = 3
    /\ ret.result = 3

\* C19: the context is consulted for the exact tag only.  When the context
\* does not report the exact queried tag (also when it holds an ancestor of
\* it), a typed get and HasTagValue return what the same call returns with no
\* context.
ContextExactTagOnly ==
    ~(ImplementsTagValueInterface(ret.ctx) /\ ContextValues(ret.tag) # NoEntry)
    => /\ (ret.op = "GetTypedValue")
            => ret.result = GetTypedValue(ret.tag, ret.type, ret.val, "null")
       /\ (ret.op = "HasTagValue")
            => ret.ok = HasTagValue(ret.tag, "null")

\* an int get of a descendant of a with the context that holds the int 1 for
\* a only, answered with the 2 that the repositories hold
ContextExactTagOnlyWitness ==
    /\ ret.op = "GetTypedValue" /\ ret.ctx = "Ctx" /\ ret.type = "int32"
    /\ ContextValues(ret.tag) = NoEntry
    /\ \E A \in Ancestors(ret.tag) : ContextValues(A) = [type |-> "int32", val |-> 1]
    /\ ret.result = 2

====
